---- MODULE Spec2Model ----
(***************************************************************************)
(* Model of frame-rs, src/src/client.rs: FrameClient, a client of the      *)
(* Frame wallet's JSON-RPC endpoint.  The client's operations are async;   *)
(* each is split at its await points.  The wallet, the node behind it and  *)
(* the HTTP transport are the environment: they are modelled by what an    *)
(* endpoint can answer, chosen nondeterministically.                       *)
(***************************************************************************)
EXTENDS Integers, Sequences, FiniteSets, TLC

(* ------------------------------ bounds -------------------------------- *)
MaxAmount == 1
MaxHash == 1
MaxChainId == 32

(* --------------------------- value universes -------------------------- *)
Callers == {"c1", "c2"}
\* the chain ids of tests::test_switch_network, and 0, which no network uses
TestChains == {1, 42161}
Chains == {0} \cup TestChains
NoChain == 0 - 1
\* chain ids for the encoding of the switch request: every small one, and
\* those around a change of the number of digits
HexInputs == (0..MaxChainId) \cup {255, 256, 4095, 4096, 42161, 65535, 65536}

NoHost == "None"
DefaultHost == "127.0.0.1"
OtherHost == "0.0.0.0"
BadHost == "bad host"
HostArgs == {NoHost, OtherHost, BadHost}

Addresses == {"addrA", "addrB"}
Amounts == 1..MaxAmount
InitBalance == [a \in Addresses |-> IF a = "addrA" THEN 1 ELSE 0]
\* H256 values; 0 is H256::zero(), never the hash of a transaction
Hashes == 1..MaxHash

NoSession == [provider |-> "none", rpc_url |-> "none"]
NoMsg == [kind |-> "none"]

(* ------------------------- pure functions ----------------------------- *)
\* format!("http://{}:1248", host)
FormatUrl(host) == <<"http://", host, ":1248">>

\* url::Url::parse as used by Provider::<Http>::try_from
UrlParses(url) == url[2] \notin {BadHost, ""}

HexDigit == <<"0", "1", "2", "3", "4", "5", "6", "7",
              "8", "9", "a", "b", "c", "d", "e", "f">>

RECURSIVE HexDigits(_)
HexDigits(n) == IF n = 0 THEN <<>>
                ELSE Append(HexDigits(n \div 16), HexDigit[(n % 16) + 1])

\* a formatting that keeps the last hexadecimal digit only
ToHexLowNibble(n) == <<"0", "x", HexDigit[(n % 16) + 1]>>

\* a formatting to at least two digits, "{:#04x}"
ToHexPadded(n) ==
    <<"0", "x">> \o (IF n < 16 THEN <<"0">> ELSE <<>>)
                 \o (IF n = 0 THEN <<"0">> ELSE HexDigits(n))

\* format!("{:#x}", chain_id): "0x", then "0" for zero, else the digits
\* from the first non-zero nibble on
ToHex(n) == <<"0", "x">> \o (IF n = 0 THEN <<"0">> ELSE HexDigits(n))

DigitValue(d) == (CHOOSE i \in 1..16 : HexDigit[i] = d) - 1

RECURSIVE HexValue(_)
HexValue(ds) == IF ds = <<>> THEN 0
                ELSE 16 * HexValue(SubSeq(ds, 1, Len(ds) - 1))
                     + DigitValue(ds[Len(ds)])

\* the reading of a 0x-quantity by the receiving side
FromHex(s) == HexValue(SubSeq(s, 3, Len(s)))

\* http::StatusCode::is_success
IsSuccess(status) == status >= 200 /\ status < 300

Ok(v) == [ok |-> TRUE, kind |-> "Ok", val |-> v]
Err(kind, detail) == [ok |-> FALSE, kind |-> kind, val |-> detail]


(* ------------------------------ state --------------------------------- *)
VARIABLES
    sess,      \* sess[c]: the FrameClient caller c holds, or NoSession
    pc,        \* pc[c]: where caller c's call in progress is suspended
    call,      \* call[c]: the call in progress: operation, &self, arguments
    req,       \* req[c]: the HTTP request of caller c on its way to the wallet
    rsp,       \* rsp[c]: the wallet's answer (on its way, or received)
    ret,       \* ret[c]: what caller c's last finished call returned
    wallet,    \* wallet[u]: the active network of the wallet behind url u
    balance,   \* balance[a]: funds of address a on the ledger
    lastSwitch,\* history: the switch request the wallet handled last (whose,
               \* made by new or by switch_network, for which chain, and
               \* whether that call returned Ok yet); NoSwitch once that call
               \* failed, its session is gone or the user changed the network
    ctor       \* history: how the switch request made by new went for the
               \* session caller c holds or is building

vars == <<sess, pc, call, req, rsp, ret, wallet, balance, lastSwitch, ctor>>

\* a wallet listens on the local host; none does on the other host
WalletUrls == {FormatUrl(DefaultHost)}

\* the networks added to the wallet's network list (network 0 never is)
Configured(u) == Chains \ {0}

NoTx == [from |-> "none", to |-> "none", value |-> 0]
NoReceipt == [present |-> FALSE, transaction_hash |-> 0]
NoCall == [op |-> "none", self |-> NoSession, chain_id |-> NoChain,
           tx |-> NoTx, pending |-> 0, receipt |-> NoReceipt,
           underfunded |-> FALSE, attempts |-> 0, switched |-> NoChain,
           host |-> NoHost]
NoRet == [op |-> "none", chain_id |-> NoChain, ok |-> FALSE,
          kind |-> "none", val |-> "none", resp |-> NoMsg, stage |-> "none",
          pending |-> 0, receipt |-> NoReceipt, underfunded |-> FALSE,
          attempts |-> 0]

NoSwitch == [who |-> "none", chain |-> NoChain, by |-> "none", ok |-> FALSE]

BodyResult == "{\"jsonrpc\":\"2.0\",\"result\":...}"
BodyRpcError == "{\"jsonrpc\":\"2.0\",\"error\":...}"
BodyText == "Bad Request"

Init ==
    /\ sess = [c \in Callers |-> NoSession]
    /\ pc = [c \in Callers |-> "idle"]
    /\ call = [c \in Callers |-> NoCall]
    /\ req = [c \in Callers |-> NoMsg]
    /\ rsp = [c \in Callers |-> NoMsg]
    /\ ret = [c \in Callers |-> NoRet]
    /\ wallet = [u \in WalletUrls |-> 1]
    /\ balance = InitBalance
    /\ lastSwitch = NoSwitch
    /\ ctor = [c \in Callers |-> "none"]

(* --------------------------- the client ------------------------------- *)
\* a new that binds the provider to the default host whatever host is given
NewClientDefaultProvider(host) ==
    LET h == IF host = NoHost THEN DefaultHost ELSE host
        rpc_url == FormatUrl(h)
    IN  IF UrlParses(rpc_url)
        THEN Ok([provider |-> FormatUrl(DefaultHost), rpc_url |-> rpc_url])
        ELSE Err("TransportError", "url parse")

\* new, lines 54-57: the session under construction, or the error of `?`
NewClient(host) ==
    LET h == IF host = NoHost THEN DefaultHost ELSE host
        rpc_url == FormatUrl(h)
    IN  IF UrlParses(rpc_url)
        THEN Ok([provider |-> rpc_url, rpc_url |-> rpc_url])
        ELSE Err("TransportError", "url parse")

\* a new that hands the session over whatever the switch request did
NewResultIgnoresSwitch(client, switched) == Ok(client)

\* new, lines 59-61: `client.switch_network(chain_id).await?; Ok(client)`
NewResult(client, switched) ==
    IF switched.ok THEN Ok(client) ELSE switched

\* a request that names chain 1 for every chain id not known to the client
SwitchRequestKnownChains(self, chain_id) ==
    [kind |-> "http", url |-> self.rpc_url,
     method |-> "wallet_switchEthereumChain",
     chainId |-> ToHex(IF chain_id \in TestChains THEN chain_id ELSE 1),
     tx |-> NoTx]

\* switch_network, lines 137-153: the request posted to self.rpc_url
SwitchRequest(self, chain_id) ==
    [kind |-> "http", url |-> self.rpc_url,
     method |-> "wallet_switchEthereumChain",
     chainId |-> ToHex(chain_id), tx |-> NoTx]

\* a provider call that, for a send, first asks the wallet for network 1
ProviderRequestReasserts(self, method, tx) ==
    IF method = "eth_sendTransaction"
    THEN [kind |-> "http", url |-> self.provider,
          method |-> "wallet_switchEthereumChain", chainId |-> ToHex(1),
          tx |-> tx]
    ELSE [kind |-> "http", url |-> self.provider, method |-> method,
          chainId |-> <<>>, tx |-> tx]

\* a request of the provider's, sent to the url the provider is bound to
ProviderRequest(self, method, tx) ==
    [kind |-> "http", url |-> self.provider, method |-> method,
     chainId |-> <<>>, tx |-> tx]

\* a check that also looks for a JSON-RPC error in the body
SwitchFailedOrRpcError(response) ==
    ~IsSuccess(response.status) \/ response.body = BodyRpcError

\* switch_network, line 155: `!response.status().is_success()`
SwitchFailed(response) == ~IsSuccess(response.status)

\* a bail! that leaves the response body out of the error
SwitchBailNoText(error_text) ==
    Err("NetworkSwitchError", <<"Failed to switch network">>)

\* switch_network, line 157
SwitchBail(error_text) ==
    Err("NetworkSwitchError", <<"Failed to switch network: ", error_text>>)

\* a provider whose errors all read as the failure of a transaction
ProviderResultTxFailed(response) ==
    IF IsSuccess(response.status) /\ response.body = BodyResult
    THEN Ok(response.result)
    ELSE Err("TransactionFailedError", "Tx failed to send")

\* what the provider makes of an answer: its result, or an error for
\* a non-success status or a JSON-RPC error envelope
ProviderResult(response) ==
    IF IsSuccess(response.status) /\ response.body = BodyResult
    THEN Ok(response.result)
    ELSE Err("TransportError", response.body)

\* a get_chain_id that answers with the chain id of the last switch request
\* when there is one, instead of the wallet's answer
GetChainIdCached(response) ==
    IF response.after.who # "none" THEN Ok(response.after.chain)
    ELSE IF IsSuccess(response.status) /\ response.body = BodyResult
         THEN Ok(FromHex(response.result))
         ELSE Err("TransportError", response.body)

\* get_chain_id, lines 98-99
GetChainIdResult(response) ==
    LET r == ProviderResult(response)
    IN  IF r.ok THEN Ok(FromHex(r.val)) ELSE r

\* a get_accounts that takes an empty list for a failure
GetAccountsNonEmpty(response) ==
    LET r == ProviderResult(response)
    IN  IF r.ok /\ r.val = <<>>
        THEN Err("TransportError", "no accounts") ELSE r

\* get_accounts, lines 241-242
GetAccountsResult(response) == ProviderResult(response)

\* send_gas_token, line 200
TransactionRequest(from, to, amount) ==
    [from |-> from, to |-> to, value |-> amount]

\* an inverted test of the receipt
SendResultInverted(tx_receipt) ==
    IF ~tx_receipt.present
    THEN Ok(tx_receipt.transaction_hash)
    ELSE Err("TransactionFailedError", "Tx failed to send")

\* an unwrap_or_default of the receipt: the zero hash when there is none
SendResultDefaultHash(tx_receipt) == Ok(tx_receipt.transaction_hash)

\* send_gas_token, lines 203-207
SendResult(tx_receipt) ==
    IF tx_receipt.present
    THEN Ok(tx_receipt.transaction_hash)
    ELSE Err("TransactionFailedError", "Tx failed to send")

\* a return that keeps the chain id of a switch_network that returned Ok in
\* the session
FinishStoresChain(c, result, response) ==
    /\ ret' = [ret EXCEPT ![c] =
                 [op |-> call[c].op, chain_id |-> call[c].chain_id,
                  ok |-> result.ok, kind |-> result.kind,
                  val |-> result.val, resp |-> response, stage |-> pc[c],
                  pending |-> call[c].pending, receipt |-> call[c].receipt,
                  underfunded |-> call[c].underfunded,
                  attempts |-> call[c].attempts]]
    /\ pc' = [pc EXCEPT ![c] = "idle"]
    /\ call' = [call EXCEPT ![c] = NoCall]
    /\ req' = [req EXCEPT ![c] = NoMsg]
    /\ rsp' = [rsp EXCEPT ![c] = NoMsg]
    /\ sess' = IF call[c].op = "new" /\ result.ok
               THEN [sess EXCEPT ![c] = result.val]
               ELSE IF call[c].op = "switch_network" /\ result.ok
                    THEN [sess EXCEPT ![c] =
                            [provider |-> sess[c].provider,
                             rpc_url |-> sess[c].rpc_url,
                             chain_id |-> call[c].chain_id]]
                    ELSE sess

\* the call of caller c returns `result`, having received `response` (or
\* none); a session is handed over by new, and no other call writes one:
\* every other operation takes &self
Finish(c, result, response) ==
    /\ ret' = [ret EXCEPT ![c] =
                 [op |-> call[c].op, chain_id |-> call[c].chain_id,
                  ok |-> result.ok, kind |-> result.kind,
                  val |-> result.val, resp |-> response, stage |-> pc[c],
                  pending |-> call[c].pending, receipt |-> call[c].receipt,
                  underfunded |-> call[c].underfunded,
                  attempts |-> call[c].attempts]]
    /\ pc' = [pc EXCEPT ![c] = "idle"]
    /\ call' = [call EXCEPT ![c] = NoCall]
    /\ req' = [req EXCEPT ![c] = NoMsg]
    /\ rsp' = [rsp EXCEPT ![c] = NoMsg]
    /\ sess' = IF call[c].op = "new" /\ result.ok
               THEN [sess EXCEPT ![c] = result.val] ELSE sess


\* a client-side lock: a caller starts a call only when no call of any
\* caller is in progress
IdleExclusive(c) == \A d \in Callers : pc[d] = "idle"

\* caller c is not suspended in a call; the client holds no lock
Idle(c) == pc[c] = "idle"
HasSession(c) == sess[c] # NoSession

\* history: the network the wallet installed for the switch request of the
\* call caller c finished last, when that call was new or switch_network,
\* returned Ok and the wallet honored it
LastSwitchedTo(c) ==
    IF ret[c].op \in {"new", "switch_network"} /\ ret[c].ok
       /\ ret[c].resp.honored
    THEN ret[c].chain_id ELSE NoChain

\* new(chain_id, host), lines 53-59, up to the await of switch_network's send
new(c, chain_id, host) ==
    /\ Idle(c) /\ ~HasSession(c)
    /\ LET built == NewClient(host)
       IN  IF built.ok
           THEN /\ call' = [call EXCEPT ![c] =
                      [NoCall EXCEPT !.op = "new", !.self = built.val,
                                     !.chain_id = chain_id, !.attempts = 1,
                                     !.host = host]]
                /\ req' = [req EXCEPT ![c] = SwitchRequest(built.val, chain_id)]
                /\ pc' = [pc EXCEPT ![c] = "sent"]
                /\ ret' = [ret EXCEPT ![c] = NoRet]
                /\ ctor' = [ctor EXCEPT ![c] = "started"]
                /\ UNCHANGED <<sess, rsp>>
           ELSE /\ ret' = [ret EXCEPT ![c] =
                      [NoRet EXCEPT !.op = "new", !.chain_id = chain_id,
                                    !.kind = built.kind, !.val = built.val]]
                /\ ctor' = [ctor EXCEPT ![c] = "none"]
                /\ UNCHANGED <<sess, pc, call, req, rsp>>
    /\ lastSwitch' = IF lastSwitch.who = c THEN NoSwitch ELSE lastSwitch
    /\ UNCHANGED <<wallet, balance>>

\* switch_network(chain_id), lines 136-153, up to the await of send
switch_network(c, chain_id) ==
    /\ Idle(c) /\ HasSession(c)
    /\ call' = [call EXCEPT ![c] =
          [NoCall EXCEPT !.op = "switch_network", !.self = sess[c],
                         !.chain_id = chain_id, !.attempts = 1]]
    /\ req' = [req EXCEPT ![c] = SwitchRequest(sess[c], chain_id)]
    /\ pc' = [pc EXCEPT ![c] = "sent"]
    /\ ret' = [ret EXCEPT ![c] = NoRet]
    /\ UNCHANGED <<sess, rsp, wallet, balance, lastSwitch, ctor>>

InSwitch(c) == call[c].op \in {"new", "switch_network"}

\* a switch that posts its request a second time when the first one failed
SwitchRetries(c, r, response) ==
    IF ~r.ok /\ call[c].attempts < 2
    THEN /\ call' = [call EXCEPT ![c].attempts = @ + 1]
         /\ req' = [req EXCEPT ![c] =
                       SwitchRequest(call[c].self, call[c].chain_id)]
         /\ rsp' = [rsp EXCEPT ![c] = NoMsg]
         /\ pc' = [pc EXCEPT ![c] = "sent"]
         /\ lastSwitch' = IF lastSwitch.who = c THEN NoSwitch ELSE lastSwitch
         /\ UNCHANGED <<sess, ret, ctor>>
    ELSE /\ Finish(c, IF call[c].op = "new" THEN NewResult(call[c].self, r)
                      ELSE r, response)
         /\ ctor' = IF call[c].op = "new"
                    THEN [ctor EXCEPT ![c] = IF r.ok THEN "ok" ELSE "failed"]
                    ELSE ctor
         /\ lastSwitch' = IF lastSwitch.who # c THEN lastSwitch
                           ELSE IF r.ok /\ pc[c] # "sent"
                                THEN [lastSwitch EXCEPT !.ok = TRUE]
                                ELSE NoSwitch

\* what new or switch_network returns when its switch request ended with r:
\* lines 153, 156-157 and 160 return, none posts the request again
SwitchReturns(c, r, response) ==
    /\ Finish(c, IF call[c].op = "new" THEN NewResult(call[c].self, r) ELSE r,
               response)
    /\ ctor' = IF call[c].op = "new"
               THEN [ctor EXCEPT ![c] = IF r.ok THEN "ok" ELSE "failed"]
               ELSE ctor
    /\ lastSwitch' = IF lastSwitch.who # c THEN lastSwitch
                      ELSE IF r.ok /\ pc[c] # "sent"
                           THEN [lastSwitch EXCEPT !.ok = TRUE] ELSE NoSwitch

\* switch_network, lines 153-160: the response has arrived
SwitchResponse(c) ==
    /\ pc[c] = "replied" /\ InSwitch(c)
    /\ IF SwitchFailed(rsp[c])
       THEN /\ pc' = [pc EXCEPT ![c] = "body"]
            /\ UNCHANGED <<sess, call, req, rsp, ret, ctor, lastSwitch>>
       ELSE SwitchReturns(c, Ok("unit"), rsp[c])
    /\ UNCHANGED <<wallet, balance>>

\* switch_network, lines 156-157: the body text has been read
SwitchErrorText(c) ==
    /\ pc[c] = "body" /\ InSwitch(c)
    /\ SwitchReturns(c, SwitchBail(rsp[c].body), rsp[c])
    /\ UNCHANGED <<wallet, balance>>

\* the `?` of lines 153 and 156: the request, the response or the body is lost
SwitchTransportError(c) ==
    /\ pc[c] \in {"sent", "replied", "body"} /\ InSwitch(c)
    /\ SwitchReturns(c, Err("TransportError", "reqwest"),
                     IF pc[c] = "body" THEN rsp[c] ELSE NoMsg)
    /\ UNCHANGED <<wallet, balance>>

(* --------------------------- the wallet ------------------------------- *)
\* the wallet has handled the switch request of caller c; a request of new
\* that it refused is of no interest later
Handled(c, honored) ==
    IF call[c].op = "new" /\ ~honored THEN NoSwitch
    ELSE [who |-> c, chain |-> call[c].chain_id, by |-> call[c].op, ok |-> FALSE]

Answer(status, body, result, honored) ==
    [kind |-> "http", status |-> status, body |-> body, result |-> result,
     honored |-> honored, served |-> NoChain, after |-> NoSwitch]

\* the wallet serves a wallet_switchEthereumChain request: it switches to the
\* requested network if that is on its list and the user agrees ...
WalletSwitches(c) ==
    /\ pc[c] = "sent" /\ req[c].method = "wallet_switchEthereumChain"
    /\ req[c].url \in WalletUrls
    /\ LET u == req[c].url
           target == FromHex(req[c].chainId)
       IN  /\ target \in Configured(u)
           /\ wallet' = [wallet EXCEPT ![u] = target]
           /\ rsp' = [rsp EXCEPT ![c] = Answer(200, BodyResult, "null", TRUE)]
           /\ lastSwitch' = Handled(c, TRUE)
    /\ pc' = [pc EXCEPT ![c] = "replied"]
    /\ UNCHANGED <<sess, call, req, ret, balance, ctor>>

\* ... or refuses, with a JSON-RPC error under a success status or with an
\* HTTP error status, and stays on its network
WalletRefusesSwitch(c, status, body) ==
    /\ pc[c] = "sent" /\ req[c].method = "wallet_switchEthereumChain"
    /\ req[c].url \in WalletUrls
    /\ body = IF IsSuccess(status) THEN BodyRpcError ELSE BodyText
    /\ rsp' = [rsp EXCEPT ![c] =
                 Answer(status, body, "none", FALSE)]
    /\ lastSwitch' = Handled(c, FALSE)
    /\ pc' = [pc EXCEPT ![c] = "replied"]
    /\ UNCHANGED <<sess, call, req, ret, wallet, balance, ctor>>

\* the user picks another network in the wallet's own interface
UserSwitches(u, chain) ==
    /\ chain \in Configured(u) /\ chain # wallet[u]
    /\ wallet' = [wallet EXCEPT ![u] = chain]
    /\ lastSwitch' = NoSwitch
    /\ UNCHANGED <<sess, pc, call, req, rsp, ret, balance, ctor>>


\* what a wallet may report as its accounts, in the order it lists them:
\* none when all are locked
WalletAccounts(u) == {<<>>, <<"addrB", "addrA">>}

InQuery(c) == call[c].op \in {"get_chain_id", "get_accounts"}

\* the wallet answers eth_chainId with its active network, eth_accounts with
\* its unlocked accounts
WalletAnswersQuery(c, accounts) ==
    /\ pc[c] = "sent" /\ req[c].method \in {"eth_chainId", "eth_accounts"}
    /\ req[c].url \in WalletUrls
    /\ accounts \in WalletAccounts(req[c].url)
    /\ req[c].method = "eth_chainId" => accounts = <<>>
    /\ LET u == req[c].url
           result == IF req[c].method = "eth_chainId"
                     THEN ToHex(wallet[u]) ELSE accounts
       IN  rsp' = [rsp EXCEPT ![c] =
                     [Answer(200, BodyResult, result, FALSE)
                        EXCEPT !.served = IF req[c].method = "eth_chainId"
                                          THEN wallet[u] ELSE NoChain,
                               !.after = IF req[c].method = "eth_chainId"
                                         THEN lastSwitch ELSE NoSwitch]]
    /\ pc' = [pc EXCEPT ![c] = "replied"]
    /\ UNCHANGED <<sess, call, req, ret, wallet, balance, lastSwitch, ctor>>

\* the wallet fails a request of the provider's
WalletFailsRequest(c) ==
    /\ pc[c] = "sent" /\ req[c].url \in WalletUrls
    /\ req[c].method \in {"eth_chainId", "eth_accounts", "eth_sendTransaction"}
    /\ rsp' = [rsp EXCEPT ![c] =
                 Answer(200, BodyRpcError, "none", FALSE)]
    /\ pc' = [pc EXCEPT ![c] = "replied"]
    /\ UNCHANGED <<sess, call, req, ret, wallet, balance, lastSwitch, ctor>>

(* ------------------- the client's provider calls ---------------------- *)
\* get_chain_id, line 98, up to the await
get_chain_id(c) ==
    /\ Idle(c) /\ HasSession(c)
    /\ call' = [call EXCEPT ![c] =
          [NoCall EXCEPT !.op = "get_chain_id", !.self = sess[c],
                         !.attempts = 1]]
    /\ req' = [req EXCEPT ![c] = ProviderRequest(sess[c], "eth_chainId", NoTx)]
    /\ pc' = [pc EXCEPT ![c] = "sent"]
    /\ ret' = [ret EXCEPT ![c] = NoRet]
    /\ UNCHANGED <<sess, rsp, wallet, balance, lastSwitch, ctor>>

\* get_accounts, line 241, up to the await
get_accounts(c) ==
    /\ Idle(c) /\ HasSession(c)
    /\ call' = [call EXCEPT ![c] =
          [NoCall EXCEPT !.op = "get_accounts", !.self = sess[c],
                         !.attempts = 1]]
    /\ req' = [req EXCEPT ![c] = ProviderRequest(sess[c], "eth_accounts", NoTx)]
    /\ pc' = [pc EXCEPT ![c] = "sent"]
    /\ ret' = [ret EXCEPT ![c] = NoRet]
    /\ UNCHANGED <<sess, rsp, wallet, balance, lastSwitch, ctor>>

\* get_chain_id, lines 98-99, and get_accounts, lines 241-242, after the await
QueryReturns(c) ==
    /\ pc[c] = "replied" /\ InQuery(c)
    /\ Finish(c, IF call[c].op = "get_chain_id"
                 THEN GetChainIdResult(rsp[c]) ELSE GetAccountsResult(rsp[c]),
               rsp[c])
    /\ UNCHANGED <<wallet, balance, lastSwitch, ctor>>

\* the `?` of lines 98, 201 and 241: the request or the response is lost
ProviderTransportError(c) ==
    /\ pc[c] \in {"sent", "replied"}
    /\ InQuery(c) \/ call[c].op = "send_gas_token"
    /\ Finish(c, Err("TransportError", "provider"), NoMsg)
    /\ UNCHANGED <<wallet, balance, lastSwitch, ctor>>

\* send_gas_token, lines 199-201, up to the await of send_transaction
send_gas_token(c, from, to, amount) ==
    /\ Idle(c) /\ HasSession(c)
    /\ LET tx == TransactionRequest(from, to, amount)
       IN  /\ call' = [call EXCEPT ![c] =
                  [NoCall EXCEPT !.op = "send_gas_token", !.self = sess[c],
                                 !.tx = tx, !.attempts = 1,
                                 !.switched = LastSwitchedTo(c),
                                 !.underfunded = (balance[from] < amount)]]
           /\ req' = [req EXCEPT ![c] =
                  ProviderRequest(sess[c], "eth_sendTransaction", tx)]
    /\ pc' = [pc EXCEPT ![c] = "sent"]
    /\ ret' = [ret EXCEPT ![c] = NoRet]
    /\ UNCHANGED <<sess, rsp, wallet, balance, lastSwitch, ctor>>

\* the wallet signs the transaction for the network it is on, broadcasts it
\* and answers with its hash
WalletSubmits(c, hash) ==
    /\ pc[c] = "sent" /\ req[c].method = "eth_sendTransaction"
    /\ req[c].url \in WalletUrls
    /\ rsp' = [rsp EXCEPT ![c] =
                 [Answer(200, BodyResult, hash, FALSE)
                    EXCEPT !.served = wallet[req[c].url]]]
    /\ pc' = [pc EXCEPT ![c] = "replied"]
    /\ UNCHANGED <<sess, call, req, ret, wallet, balance, lastSwitch, ctor>>

\* send_gas_token, line 201 after the await: the pending handle, which
\* keeps the hash of the answer, or `?`; the history of the caller's last
\* switch is kept up to the submission only
SendSubmitted(c) ==
    /\ pc[c] = "replied" /\ call[c].op = "send_gas_token"
    /\ LET pending_tx == ProviderResult(rsp[c])
       IN  IF pending_tx.ok
           THEN /\ call' = [call EXCEPT ![c].pending = pending_tx.val,
                                        ![c].switched = NoChain]
                /\ pc' = [pc EXCEPT ![c] = "pending"]
                /\ req' = [req EXCEPT ![c] = NoMsg]
                /\ rsp' = [rsp EXCEPT ![c] = NoMsg]
                /\ UNCHANGED <<sess, ret>>
           ELSE Finish(c, pending_tx, rsp[c])
    /\ UNCHANGED <<wallet, balance, lastSwitch, ctor>>

Transfer(tx) ==
    IF tx.from = tx.to THEN balance
    ELSE [balance EXCEPT ![tx.from] = @ - tx.value, ![tx.to] = @ + tx.value]

\* the transaction is mined and the pending handle resolves to its receipt;
\* a transfer its sender cannot pay is never mined
TransactionMined(c) ==
    /\ pc[c] = "pending"
    /\ balance[call[c].tx.from] >= call[c].tx.value
    /\ balance' = Transfer(call[c].tx)
    /\ call' = [d \in Callers |->
          IF d = c
          THEN [call[c] EXCEPT !.receipt = [present |-> TRUE,
                                  transaction_hash |-> call[c].pending]]
          ELSE [call[d] EXCEPT !.underfunded =
                   @ /\ Transfer(call[c].tx)[call[d].tx.from] < call[d].tx.value]]
    /\ pc' = [pc EXCEPT ![c] = "resolved"]
    /\ UNCHANGED <<sess, req, rsp, ret, wallet, lastSwitch, ctor>>

\* the transaction is dropped and the pending handle resolves to no receipt
TransactionDropped(c) ==
    /\ pc[c] = "pending"
    /\ call' = [call EXCEPT ![c].receipt = NoReceipt]
    /\ pc' = [pc EXCEPT ![c] = "resolved"]
    /\ UNCHANGED <<sess, req, rsp, ret, wallet, balance, lastSwitch, ctor>>

\* send_gas_token, line 202: the `?` on the pending handle's error
PendingFails(c) ==
    /\ pc[c] = "pending"
    /\ Finish(c, Err("TransportError", "pending"), NoMsg)
    /\ UNCHANGED <<wallet, balance, lastSwitch, ctor>>

\* a send that awaits the pending handle again when it resolved to no
\* receipt
SendReturnsRewaits(c) ==
    /\ pc[c] = "resolved"
    /\ IF call[c].receipt.present
       THEN Finish(c, SendResult(call[c].receipt), NoMsg)
       ELSE /\ pc' = [pc EXCEPT ![c] = "pending"]
            /\ UNCHANGED <<sess, call, req, rsp, ret>>
    /\ UNCHANGED <<wallet, balance, lastSwitch, ctor>>

\* send_gas_token, lines 203-207
SendReturns(c) ==
    /\ pc[c] = "resolved"
    /\ Finish(c, SendResult(call[c].receipt), NoMsg)
    /\ UNCHANGED <<wallet, balance, lastSwitch, ctor>>

(* ---------------------- sessions: Clone and drop ---------------------- *)
\* #[derive(Clone)], line 11: caller c takes a clone of caller d's session
Clone(c, d) ==
    /\ Idle(c) /\ ~HasSession(c) /\ HasSession(d)
    /\ sess' = [sess EXCEPT ![c] = sess[d]]
    /\ ctor' = [ctor EXCEPT ![c] = ctor[d]]
    /\ lastSwitch' = IF lastSwitch.who = c THEN NoSwitch ELSE lastSwitch
    /\ ret' = [ret EXCEPT ![c] = NoRet]
    /\ UNCHANGED <<pc, call, req, rsp, wallet, balance>>

\* the holder drops its session
Drop(c) ==
    /\ Idle(c) /\ HasSession(c)
    /\ sess' = [sess EXCEPT ![c] = NoSession]
    /\ ctor' = [ctor EXCEPT ![c] = "none"]
    /\ lastSwitch' = IF lastSwitch.who = c THEN NoSwitch ELSE lastSwitch
    /\ ret' = [ret EXCEPT ![c] = NoRet]
    /\ UNCHANGED <<pc, call, req, rsp, wallet, balance>>

(* --------------------------- specification ---------------------------- *)
RefusalStatuses == {200, 500}

Next ==
    \/ \E c \in Callers, chain_id \in Chains, host \in HostArgs :
          new(c, chain_id, host)
    \/ \E c \in Callers, chain_id \in Chains : switch_network(c, chain_id)
    \/ \E c \in Callers : SwitchResponse(c)
    \/ \E c \in Callers : SwitchErrorText(c)
    \/ \E c \in Callers : SwitchTransportError(c)
    \/ \E c \in Callers : WalletSwitches(c)
    \/ \E c \in Callers, status \in RefusalStatuses,
          body \in {BodyRpcError, BodyText} : WalletRefusesSwitch(c, status, body)
    \/ \E u \in WalletUrls, chain \in Chains : UserSwitches(u, chain)
    \/ \E c \in Callers, u \in WalletUrls :
          \E accounts \in WalletAccounts(u) : WalletAnswersQuery(c, accounts)
    \/ \E c \in Callers : WalletFailsRequest(c)
    \/ \E c \in Callers : get_chain_id(c)
    \/ \E c \in Callers : get_accounts(c)
    \/ \E c \in Callers : QueryReturns(c)
    \/ \E c \in Callers : ProviderTransportError(c)
    \/ \E c \in Callers, from \in Addresses, amount \in Amounts :
          \E to \in Addresses \ {from} : send_gas_token(c, from, to, amount)
    \/ \E c \in Callers, hash \in Hashes : WalletSubmits(c, hash)
    \/ \E c \in Callers : SendSubmitted(c)
    \/ \E c \in Callers : TransactionMined(c)
    \/ \E c \in Callers : TransactionDropped(c)
    \/ \E c \in Callers : PendingFails(c)
    \/ \E c \in Callers : SendReturns(c)
    \/ \E c \in Callers, d \in Callers : Clone(c, d)
    \/ \E c \in Callers : Drop(c)

Spec == Init /\ [][Next]_vars

(* ------------- the encoding of the switch request alone --------------- *)
\* two callers hold clones of a session built for the default host
Held == [c \in Callers |-> NewClient(NoHost).val]

InitHeld ==
    /\ sess = Held
    /\ pc = [c \in Callers |-> "idle"]
    /\ call = [c \in Callers |-> NoCall]
    /\ req = [c \in Callers |-> NoMsg]
    /\ rsp = [c \in Callers |-> NoMsg]
    /\ ret = [c \in Callers |-> NoRet]
    /\ wallet = [u \in WalletUrls |-> 1]
    /\ balance = InitBalance
    /\ lastSwitch = NoSwitch
    /\ ctor = [c \in Callers |-> "ok"]

\* switch_network builds and posts its request for any chain id; the
\* request is lost on its way
NextHex ==
    \/ \E c \in Callers, chain_id \in HexInputs : switch_network(c, chain_id)
    \/ \E c \in Callers : SwitchTransportError(c)

SpecHex == InitHeld /\ [][NextHex]_vars


(* ------------------ sends and queries, with fairness ------------------ *)
NextSend ==
    \/ \E c \in Callers, from \in Addresses, amount \in Amounts :
          \E to \in Addresses \ {from} : send_gas_token(c, from, to, amount)
    \/ \E c \in Callers, hash \in Hashes : WalletSubmits(c, hash)
    \/ \E c \in Callers : WalletFailsRequest(c)
    \/ \E c \in Callers : ProviderTransportError(c)
    \/ \E c \in Callers : SendSubmitted(c)
    \/ \E c \in Callers : TransactionMined(c)
    \/ \E c \in Callers : TransactionDropped(c)
    \/ \E c \in Callers : PendingFails(c)
    \/ \E c \in Callers : SendReturns(c)
    \/ \E c \in Callers : get_chain_id(c)
    \/ \E c \in Callers, u \in WalletUrls :
          \E accounts \in WalletAccounts(u) : WalletAnswersQuery(c, accounts)
    \/ \E c \in Callers : QueryReturns(c)

\* the provider resolves the future the call of caller c awaits: the answer
\* to its request, or an error in its place (lines 98 and 201), the receipt
\* of the pending transaction, none, or an error (line 202)
ProviderResolves(c) ==
    \/ \E hash \in Hashes : WalletSubmits(c, hash)
    \/ \E u \in WalletUrls :
          \E accounts \in WalletAccounts(u) : WalletAnswersQuery(c, accounts)
    \/ WalletFailsRequest(c)
    \/ ProviderTransportError(c)
    \/ TransactionMined(c)
    \/ TransactionDropped(c)
    \/ PendingFails(c)

\* the executor polls the call of caller c once the future it awaits is ready
ClientResumes(c) == SendSubmitted(c) \/ SendReturns(c) \/ QueryReturns(c)

SpecSend ==
    /\ InitHeld /\ [][NextSend]_vars
    /\ \A c \in Callers : WF_vars(ProviderResolves(c)) /\ WF_vars(ClientResumes(c))

(* ------------------------------ claims -------------------------------- *)
GotChainId(c) == ret[c].op = "get_chain_id" /\ ret[c].ok

\* the query of caller c was served right after the wallet handled c's own
\* switch request made by `by`, and that call returned Ok
ServedAfterOwn(c, by) ==
    /\ ret[c].resp.after.who = c
    /\ ret[c].resp.after.by = by
    /\ ret[c].resp.after.ok

SwitchOps == {"new", "switch_network"}
SessionOps == {"switch_network", "get_chain_id", "get_accounts", "send_gas_token"}

\* C1: a get_chain_id served next after the wallet honored the switch request
\* of new(chain_id, host), with no switch request by anyone in between,
\* returns chain_id.
RoundTripOpenQuery ==
    \A c \in Callers :
        GotChainId(c) /\ ServedAfterOwn(c, "new")
            => ret[c].val = ret[c].resp.after.chain

WitnessRoundTripOpenQuery ==
    \E c \in Callers :
        /\ GotChainId(c) /\ ServedAfterOwn(c, "new")
        /\ ret[c].val = 42161

\* C2: a get_chain_id served next after a switch_network(chain_id) that
\* returned Ok, with no switch request by anyone in between, returns chain_id
\* (also when the same chain_id is switched to twice in a row).
SwitchThenQueryReflects ==
    \A c \in Callers :
        GotChainId(c) /\ ServedAfterOwn(c, "switch_network")
            => ret[c].val = ret[c].resp.after.chain

\* C3: switch_network returns Ok only when the wallet acknowledged the request
\* without errors: it took the switch and its answer carries no error.
SwitchOkOnlyWhenAcknowledged ==
    \A c \in Callers :
        ret[c].op = "switch_network" /\ ret[c].ok
            => ret[c].resp.honored /\ ret[c].resp.body = BodyResult

ReceivedNonSuccess(c) ==
    /\ ret[c].op \in SwitchOps
    /\ ret[c].resp.kind = "http"
    /\ ~IsSuccess(ret[c].resp.status)

CarriesBody(c) ==
    /\ ret[c].kind = "NetworkSwitchError"
    /\ ret[c].val = <<"Failed to switch network: ", ret[c].resp.body>>

\* C5 as stated: on a non-success status the switch always fails with
\* NetworkSwitchError carrying the body text, and with no other error.
NonSuccessAlwaysNetworkSwitchError ==
    \A c \in Callers : ReceivedNonSuccess(c) => CarriesBody(c)

\* C5 as amended: on a non-success status the switch fails; with
\* NetworkSwitchError carrying the raw body text when the body could be read,
\* and with the transport error of reading the body otherwise.
NonSuccessFailsWithBodyOrReadError ==
    \A c \in Callers :
        ReceivedNonSuccess(c)
            => /\ ~ret[c].ok
               /\ \/ CarriesBody(c)
                  \/ ret[c].kind = "TransportError" /\ ret[c].stage = "body"

WitnessNonSuccessFailsWithBody ==
    \E c \in Callers :
        /\ ret[c].op = "switch_network"
        /\ ReceivedNonSuccess(c) /\ CarriesBody(c)
        /\ ret[c].resp.body = BodyText

\* C6: a session exists only once the switch request made by its new has
\* returned Ok; new hands no session over while that request is under way or
\* when it, or the construction of the provider, failed; every other call is
\* made on such a session.
SessionOnlyAfterConstructionSwitch ==
    \A c \in Callers :
        /\ HasSession(c) => ctor[c] = "ok"
        /\ call[c].op = "new" => ~HasSession(c) /\ ctor[c] = "started"
        /\ call[c].op \in SessionOps
              => call[c].self = sess[c] /\ HasSession(c) /\ ctor[c] = "ok"
        /\ ret[c].op = "new"
              => /\ ret[c].ok <=> HasSession(c)
                 /\ ret[c].ok => ret[c].val = sess[c] /\ ret[c].resp.kind = "http"

WitnessSessionOnlyAfterConstructionSwitch ==
    \E c \in Callers, d \in Callers :
        /\ ret[c].op = "new" /\ ~ret[c].ok /\ ctor[c] = "failed" /\ ~HasSession(c)
        /\ ret[d].op \in SessionOps /\ HasSession(d)

\* C7: the client does not validate the chain id: the switch request names
\* the chain id it was given, whatever it is, and new and switch_network fail
\* only with an error of the transport or on a non-success status; a success
\* status makes them return Ok also for a chain id no network uses.
NoChainIdValidation ==
    \A c \in Callers :
        /\ pc[c] = "sent" /\ InSwitch(c)
              => /\ req[c].method = "wallet_switchEthereumChain"
                 /\ FromHex(req[c].chainId) = call[c].chain_id
        /\ ret[c].op \in SwitchOps /\ ~ret[c].ok
              => \/ ret[c].kind = "TransportError"
                 \/ ret[c].kind = "NetworkSwitchError" /\ ReceivedNonSuccess(c)
        /\ ret[c].op \in SwitchOps /\ ret[c].resp.kind = "http"
              /\ IsSuccess(ret[c].resp.status) => ret[c].ok

WitnessNoChainIdValidation ==
    \E c \in Callers :
        /\ ret[c].op = "new" /\ ret[c].ok
        /\ ret[c].chain_id = 0 /\ HasSession(c)

SentGasToken(c) == ret[c].op = "send_gas_token"

NoReceiptFailure(c) ==
    /\ ret[c].kind = "TransactionFailedError"
    /\ ret[c].val = "Tx failed to send"

\* C8: send_gas_token returns a hash exactly when the pending handle resolved
\* to a receipt, and then the receipt's hash; when the handle resolved to no
\* receipt it fails with "Tx failed to send"; a call is awaiting confirmation
\* only after the provider returned a pending handle.
SendStateMachine ==
    \A c \in Callers :
        /\ SentGasToken(c)
              => /\ ret[c].ok <=> ret[c].stage = "resolved" /\ ret[c].receipt.present
                 /\ ret[c].ok => /\ ret[c].val = ret[c].receipt.transaction_hash
                                 /\ ret[c].val = ret[c].pending
                                 /\ ret[c].val \in Hashes
                 /\ ret[c].stage = "resolved" /\ ~ret[c].receipt.present
                       => NoReceiptFailure(c)
        /\ pc[c] = "pending" => call[c].pending \in Hashes /\ ~call[c].receipt.present
        /\ pc[c] = "resolved" => call[c].pending \in Hashes

WitnessSendStateMachine ==
    \E c \in Callers, d \in Callers :
        /\ SentGasToken(c) /\ ret[c].ok /\ ret[c].val \in Hashes
        /\ SentGasToken(d) /\ ret[d].stage = "resolved" /\ NoReceiptFailure(d)

\* C9 as stated: a send from a sender whose balance is insufficient yields
\* TransactionFailedError.
UnderfundedSendYieldsTransactionFailed ==
    \A c \in Callers :
        SentGasToken(c) /\ ret[c].underfunded
            => ret[c].kind = "TransactionFailedError"

\* C9 as amended: a send from a sender whose balance is insufficient for the
\* amount throughout the call never returns a hash: it fails with
\* TransactionFailedError when the pending handle resolved to no receipt, and
\* with the provider's error otherwise.
UnderfundedSendNeverYieldsHash ==
    \A c \in Callers :
        SentGasToken(c) /\ ret[c].underfunded
            => /\ ~ret[c].ok
               /\ ret[c].kind \in {"TransactionFailedError", "TransportError"}
               /\ ret[c].kind = "TransactionFailedError" <=> ret[c].stage = "resolved"

WitnessUnderfundedSend ==
    \E c \in Callers :
        /\ SentGasToken(c) /\ ret[c].underfunded
        /\ ret[c].stage = "resolved" /\ NoReceiptFailure(c)

\* C10: a successful get_chain_id returns the network the wallet was on when
\* it served the query, not a value kept from an earlier switch.
NoCachedChainId ==
    \A c \in Callers :
        GotChainId(c)
            => ret[c].resp.kind = "http" /\ ret[c].val = ret[c].resp.served

\* the query of c returned the network another caller's switch installed
WitnessNoCachedChainId ==
    \E c \in Callers :
        /\ GotChainId(c)
        /\ ret[c].resp.after.who \in Callers \ {c}
        /\ ret[c].resp.after.ok
        /\ ret[c].val = ret[c].resp.after.chain
        /\ ret[c].val = 42161

\* C11: no operation retries: a call of new, switch_network or send_gas_token
\* has issued exactly one request while it is in progress and when it has
\* returned, whether it succeeded or failed.
NoRetry ==
    \A c \in Callers :
        /\ call[c].op \in SwitchOps \cup {"send_gas_token"}
              => call[c].attempts = 1
        /\ ret[c].op \in SwitchOps \cup {"send_gas_token"}
              /\ ret[c].stage # "none" => ret[c].attempts = 1

\* a switch and a send that failed, each after its one request
WitnessNoRetry ==
    \E c \in Callers, d \in Callers :
        /\ ret[c].op = "switch_network" /\ ~ret[c].ok
        /\ ret[c].kind = "NetworkSwitchError" /\ ret[c].attempts = 1
        /\ SentGasToken(d) /\ ~ret[d].ok /\ ret[d].stage = "replied"
        /\ ret[d].attempts = 1

\* C12: the client imposes no ordering or mutual exclusion between the calls
\* of different callers: a caller that holds a session and has no call in
\* progress can start any call, whatever the other callers' calls are doing;
\* only a caller's own calls are ordered: while its query or send is in
\* progress, a switch request of its own that the wallet handled last belongs
\* to a call that has already returned Ok.
NoOrderingBetweenCallers ==
    \A c \in Callers :
        /\ pc[c] = "idle" /\ HasSession(c)
              => /\ ENABLED get_chain_id(c)
                 /\ ENABLED get_accounts(c)
                 /\ ENABLED switch_network(c, 42161)
                 /\ ENABLED send_gas_token(c, "addrA", "addrB", 1)
        /\ call[c].op \in SessionOps \ {"switch_network"} /\ lastSwitch.who = c
              => lastSwitch.ok

\* two callers share a session; c switched to network 1 and then sent; the
\* wallet handled d's switch to 42161, whose call has not returned yet, before
\* c's send, and submitted the send on 42161
WitnessSendRacesSwitch ==
    \E c \in Callers, d \in Callers :
        /\ c # d /\ HasSession(c) /\ HasSession(d) /\ sess[c] = sess[d]
        /\ call[c].op = "send_gas_token" /\ pc[c] = "replied"
        /\ rsp[c].body = BodyResult
        /\ call[c].switched = 1 /\ rsp[c].served = 42161
        /\ call[d].op = "switch_network" /\ pc[d] = "replied"
        /\ lastSwitch.who = d /\ lastSwitch.chain = 42161 /\ rsp[d].honored

\* C13: the session is immutable: it holds the provider handle and the base
\* url and nothing else (no chain id), a call in progress works on the
\* session its caller holds, and no step changes the session a caller holds
\* into a different one.
SessionImmutable ==
    /\ [](\A c \in Callers :
            /\ DOMAIN sess[c] = {"provider", "rpc_url"}
            /\ call[c].op \in SessionOps => call[c].self = sess[c])
    /\ [][\A c \in Callers :
            HasSession(c) /\ sess'[c] # NoSession => sess'[c] = sess[c]]_vars

\* the holder of a session has switched it to 42161 and sent from it, and
\* the session still is the one new built for the default host
WitnessSessionImmutable ==
    \E c \in Callers, d \in Callers :
        /\ c # d /\ HasSession(c) /\ HasSession(d)
        /\ sess[c] = NewClient(NoHost).val /\ sess[d] = sess[c]
        /\ ret[c].op = "switch_network" /\ ret[c].ok /\ ret[c].chain_id = 42161
        /\ ret[d].op = "send_gas_token" /\ ret[d].ok

LowerHexDigits == {"0", "1", "2", "3", "4", "5", "6", "7",
                   "8", "9", "a", "b", "c", "d", "e", "f"}

\* C14: the chain id in the switch request is "0x" followed by lowercase
\* hexadecimal digits, at least one; it decodes to the chain id given; its
\* first digit is 0 only for chain id 0, which encodes as 0x0; 1 gives 0x1
\* and 42161 gives 0xa4b1.
HexEncoding ==
    \A c \in Callers :
        pc[c] = "sent" /\ InSwitch(c)
            => LET s == req[c].chainId
                   n == call[c].chain_id
               IN  /\ Len(s) >= 3 /\ s[1] = "0" /\ s[2] = "x"
                   /\ \A i \in 3..Len(s) : s[i] \in LowerHexDigits
                   /\ s[3] = "0" => n = 0 /\ Len(s) = 3
                   /\ FromHex(s) = n
                   /\ n = 0 => s = <<"0", "x", "0">>
                   /\ n = 1 => s = <<"0", "x", "1">>
                   /\ n = 42161 => s = <<"0", "x", "a", "4", "b", "1">>

WitnessHexEncoding ==
    \E c \in Callers, d \in Callers :
        /\ pc[c] = "sent" /\ call[c].chain_id = 42161
        /\ req[c].chainId = <<"0", "x", "a", "4", "b", "1">>
        /\ pc[d] = "sent" /\ call[d].chain_id = 0
        /\ req[d].chainId = <<"0", "x", "0">>

\* C15: get_accounts returns Ok exactly when the wallet answered with a
\* result, and then the sequence of that answer unchanged, in the wallet's
\* order, the empty sequence included.
AccountsAsReported ==
    \A c \in Callers :
        ret[c].op = "get_accounts"
            => /\ ret[c].ok <=> /\ ret[c].resp.kind = "http"
                                /\ IsSuccess(ret[c].resp.status)
                                /\ ret[c].resp.body = BodyResult
               /\ ret[c].ok => ret[c].val = ret[c].resp.result

WitnessAccountsAsReported ==
    \E c \in Callers, d \in Callers :
        /\ ret[c].op = "get_accounts" /\ ret[c].ok /\ ret[c].val = <<>>
        /\ ret[d].op = "get_accounts" /\ ret[d].ok
        /\ ret[d].val = <<"addrB", "addrA">>

RejectedSubmissionPropagates ==
    \A c \in Callers :
        /\ SentGasToken(c) /\ ret[c].stage \in {"sent", "replied"}
              => /\ ~ret[c].ok /\ ret[c].kind = "TransportError"
                 /\ ~NoReceiptFailure(c)
                 /\ ret[c].pending \notin Hashes /\ ~ret[c].receipt.present
                 /\ ret[c].resp.kind = "http" => ret[c].val = ret[c].resp.body
        /\ SentGasToken(c) /\ ret[c].kind = "TransactionFailedError"
              => /\ ret[c].stage = "resolved" /\ ~ret[c].receipt.present
                 /\ ret[c].pending \in Hashes

WitnessRejectedSubmission ==
    \E c \in Callers :
        /\ SentGasToken(c) /\ ret[c].stage = "replied"
        /\ ret[c].resp.kind = "http" /\ ret[c].resp.body = BodyRpcError
        /\ ret[c].kind = "TransportError" /\ ret[c].val = BodyRpcError

ProviderMethod(op) ==
    IF op = "get_chain_id" THEN "eth_chainId"
    ELSE IF op = "get_accounts" THEN "eth_accounts" ELSE "eth_sendTransaction"

\* C18: get_chain_id, get_accounts and send_gas_token issue their own
\* request, never a wallet_switchEthereumChain one, and name no chain in it;
\* no step of such a call changes the wallet's active network; the wallet
\* changes network only on serving a switch request of new or switch_network
\* (or at its user's hand), and submits a send on the network it is on.
OnlySwitchRequestsSwitch ==
    /\ [](\A c \in Callers :
            call[c].op \in SessionOps \ {"switch_network"} /\ req[c] # NoMsg
               => /\ req[c].method = ProviderMethod(call[c].op)
                  /\ req[c].chainId = <<>>)
    /\ [][\A c \in Callers :
            /\ pc'[c] # pc[c]
                  /\ \/ call[c].op \in SessionOps \ {"switch_network"}
                     \/ call'[c].op \in SessionOps \ {"switch_network"}
                  => wallet' = wallet
            /\ pc'[c] # pc[c] /\ wallet' # wallet
                  => /\ InSwitch(c) /\ pc[c] = "sent"
                     /\ req[c].method = "wallet_switchEthereumChain"
                     /\ wallet'[req[c].url] = call[c].chain_id
            /\ call[c].op = "send_gas_token" /\ pc[c] = "sent"
                  /\ pc'[c] = "replied" /\ rsp'[c].body = BodyResult
                  => rsp'[c].served = wallet[req[c].url]]_vars

\* the caller switched the wallet to network 1, its user then picked 42161,
\* and the caller's send was submitted on 42161
WitnessSendOnUsersNetwork ==
    \E c \in Callers :
        /\ call[c].op = "send_gas_token" /\ pc[c] = "replied"
        /\ rsp[c].body = BodyResult
        /\ call[c].switched = 1 /\ rsp[c].served = 42161
        /\ req[c].method = "eth_sendTransaction"
        /\ lastSwitch = NoSwitch
        /\ \A d \in Callers \ {c} : ~HasSession(d) /\ pc[d] = "idle"

\* the url http://<host>:1248 for the host given to new, 127.0.0.1 for none
EndpointOf(host) ==
    <<"http://", IF host = NoHost THEN "127.0.0.1" ELSE host, ":1248">>

\* C19: the provider of a session and its switch requests use one url,
\* http://<host>:1248 with the host given to new or 127.0.0.1: in the session
\* new is building, in every session held, and in every request on its way,
\* whether it is a switch request or a request of the provider.
SameEndpoint ==
    \A c \in Callers :
        /\ call[c].op = "new"
              => /\ call[c].self.rpc_url = EndpointOf(call[c].host)
                 /\ call[c].self.provider = EndpointOf(call[c].host)
        /\ HasSession(c)
              => /\ sess[c].provider = sess[c].rpc_url
                 /\ \E host \in HostArgs : sess[c].rpc_url = EndpointOf(host)
        /\ req[c] # NoMsg
              => /\ req[c].url = call[c].self.rpc_url
                 /\ req[c].url = call[c].self.provider

\* two holders of the session for the default host have a switch request
\* and a query on their way, to the same url
WitnessSameEndpoint ==
    \E c \in Callers, d \in Callers :
        /\ HasSession(c) /\ HasSession(d) /\ sess[c] = sess[d]
        /\ call[c].op = "switch_network" /\ pc[c] = "sent"
        /\ call[d].op = "get_chain_id" /\ pc[d] = "sent"
        /\ req[c].url = <<"http://", "127.0.0.1", ":1248">>
        /\ req[d].url = req[c].url

====
